---- MODULE Spec2Model ----
(***************************************************************************)
(* Model of the scheduling and engagement-feedback orchestrator of xbot1:  *)
(* SchedulerService (src/src/services/scheduler.js), the MetricsTracker    *)
(* (src/src/utils/metrics.js), the parts of TwitterService it drives       *)
(* (src/src/services/twitter.js) and the EngagementModel store             *)
(* (src/unnamed/part_003).                                                 *)
(*                                                                         *)
(* Every `await` of an async method is a suspension point: one action of   *)
(* the model is the code that runs between two suspension points.  Time is *)
(* counted in whole hours.                                                 *)
(***************************************************************************)
EXTENDS Integers, Sequences, FiniteSets, Bags, TLC

\* ---------------------------------------------------------------- bounds
MaxTime == 4          \* the clock runs over 0..MaxTime hours
MaxCapTime == 2       \* the same, in the runs of the mention checks and near the watchlist cap
MaxCalls == 2         \* invocations of async methods in flight together
MaxPosts == 2         \* posts published by the platform in one run
MaxStarts == 2        \* calls of startAllJobs
MaxMentions == 2      \* mentions the platform holds
MaxDays == 2          \* days the recurring triggers are watched over
MaxCoins == 2         \* coins in one answer of the trending search
MaxSnapshots == 1     \* rows the metrics table can hold before inserts fail; hours of the store's clock

\* ------------------------------------------------------ program constants
WatchlistCap == 20        \* scheduler.js:127
DefaultMetricsCheckHours == 3   \* part_002:30, METRICS_CHECK_HOURS unset
MentionFetchCount == 10   \* scheduler.js:147
MentionWindowHours == 1   \* scheduler.js:154

TokenFreshHours == 120    \* twitter.js:222
TweetMaxLength == 280     \* prompts.js:34, the platform's message-length limit

Null == -1                \* SQL NULL / JavaScript undefined in a numeric column
NoTask == 0               \* a key absent from this.jobs

JobTypes == {"tweet", "mentions", "metrics"}

VARIABLES
    now,               \* wall clock, in hours
    metricsCheckHours, \* SchedulerService.metricsCheckHours, set at construction
    jobs,              \* SchedulerService.jobs: job type -> cron task (NoTask = absent)
    cronTasks,         \* every task node-cron created: <<[type, active]>>
    recentTweets,      \* SchedulerService.recentTweets, the watchlist
    calls,             \* async invocations in flight: a bag of call records
    last,              \* the invocation that settled most recently, and how
    uncaught,          \* a rejection or exception escaped every handler
    errorLog,          \* messages the top-level handlers wrote with logger.error
    nextTweetId,       \* next id the platform assigns to a published post
    inbox,             \* mentions on the platform: <<[id, created_at]>>
    repliedToMentions, \* TwitterService.repliedToMentions
    tweets,            \* store table tweets: <<[id, created_at]>>
    metrics,           \* store table metrics: <<[tweet_id, timestamp, likes, retweets, replies]>>
    analyses,          \* store table performance_analysis: <<[tweet_id, timestamp]>>
    recentTokens,      \* TwitterService.recentTokens: normalized symbol -> first seen
    returned,          \* what the last synchronous call or store query returned
    dbOpen             \* EngagementModel.db is an open connection

vars == <<now, metricsCheckHours, jobs, cronTasks, recentTweets,
          calls, last, uncaught, errorLog, nextTweetId,
          inbox, repliedToMentions, tweets, metrics, analyses,
          recentTokens, returned, dbOpen>>

\* ---------------------------------------------------------------- helpers
\* A call record: kind and origin of the invocation, pc = the await it is
\* suspended at, and its locals.  post: idx = 1 once the context bundle is
\* gathered, val = 1 once the content is generated.  mentions: list =
\* newMentions, idx = loop position, done = mentions replied to.  metrics:
\* list = tweetsToTrack, idx = loop position, done = ids whose snapshot was
\* saved, val = index of the fetched platform response.
Idle == [kind |-> "idle", origin |-> "none", pc |-> "none", list |-> <<>>,
         idx |-> 0, done |-> {}, val |-> Null]

\* What is known of a settled invocation: where it ended (pc), how (result),
\* the error it was rejected with, which handler took the rejection, and the
\* number a resolved method returned.
NoneSettled == [kind |-> "idle", origin |-> "none", pc |-> "none",
                result |-> "none", error |-> "none", handler |-> "none", count |-> 0]

\* the number of invocations of `kind` in the bag cs
InFlight(cs, kind) ==
    BagCardinality([c \in {d \in BagToSet(cs) : d.kind = kind} |-> CopiesIn(c, cs)])

Min(S) == CHOOSE x \in S : \A y \in S : x <= y

Ids(seq) == {seq[i].id : i \in 1..Len(seq)}

Entry(id, t) == [id |-> id, createdAt |-> t]

RECURSIVE FilterBefore(_, _)
\* scheduler.js:212-214  recentTweets.filter(tweet => tweet.createdAt < cutoffTime)
FilterBefore(seq, cutoff) ==
    IF seq = <<>> THEN <<>>
    ELSE IF Head(seq).createdAt < cutoff
         THEN <<Head(seq)>> \o FilterBefore(Tail(seq), cutoff)
         ELSE FilterBefore(Tail(seq), cutoff)

\* scheduler.js:209-214
TweetsToTrack(list, t) == FilterBefore(list, t - metricsCheckHours)

\* scheduler.js:226  recentTweets.findIndex(t => t.id === id); 0 stands for -1
FindIndex(seq, id) ==
    IF \E i \in 1..Len(seq) : seq[i].id = id
    THEN Min({i \in 1..Len(seq) : seq[i].id = id})
    ELSE 0

\* Array.prototype.splice(index, 1), 1-based
Splice(seq, i) == SubSeq(seq, 1, i - 1) \o SubSeq(seq, i + 1, Len(seq))

\* scheduler.js:226-229
RemoveFromWatchlist(seq, id) ==
    IF FindIndex(seq, id) # 0 THEN Splice(seq, FindIndex(seq, id)) ELSE seq

\* a slip: the entry dropped from a full list is the newest of the old ones
PushAndTrim_DropsNewest(seq, e) ==
    IF Len(Append(seq, e)) > WatchlistCap
    THEN Append(SubSeq(seq, 1, Len(seq) - 1), e)
    ELSE Append(seq, e)

\* scheduler.js:119-129  push, then shift when longer than 20
PushAndTrim(seq, e) ==
    IF Len(Append(seq, e)) > WatchlistCap THEN Tail(Append(seq, e)) ELSE Append(seq, e)

\* ------------------------------------------------- invocations (promises)
\* The state of an async method right after it is called: it has run up to
\* its first await.  trackTweetMetrics computes tweetsToTrack before it
\* awaits anything (scheduler.js:209-216).
NewCall(kind, origin) ==
    IF kind \in {"post", "force"}
    THEN [Idle EXCEPT !.kind = kind, !.origin = origin, !.pc = "aggregate"]
    ELSE IF kind = "mentions"
    THEN [Idle EXCEPT !.kind = kind, !.origin = origin, !.pc = "getMentions"]
    ELSE [Idle EXCEPT !.kind = kind, !.origin = origin,
                      !.pc = IF TweetsToTrack(recentTweets, now) = <<>>
                             THEN "insights" ELSE "fetch",
                      !.list = TweetsToTrack(recentTweets, now),
                      !.idx = 1]

Spawn(cs, kind, origin) == cs (+) SetToBag({NewCall(kind, origin)})

\* posts already published plus posts that invocations in flight may publish
PostsCommitted(cs) ==
    (nextTweetId - 1) + InFlight(cs, "post") + InFlight(cs, "force")

\* ------------------------------------------ top-level handlers of a result
\* What the code attached to a settled promise does with its result: which
\* handler took a rejection, the logger.error message it wrote, and whether
\* the rejection was left unhandled.
Unhandled == [handler |-> "none", logged |-> {}, uncaught |-> TRUE]
Quiet == [handler |-> "none", logged |-> {}, uncaught |-> FALSE]
Caught(handler, message) ==
    [handler |-> handler, logged |-> {message}, uncaught |-> FALSE]

\* scheduler.js:47-54  try { await this.postScheduledTweet() } catch { logger.error }
TweetJobCallback(result) ==
    IF result = "rejected"
    THEN Caught("tickCatch", "Error in scheduled tweet job")
    ELSE Quiet

\* scheduler.js:69-76
MentionsJobCallback(result) ==
    IF result = "rejected"
    THEN Caught("tickCatch", "Error in mentions check job")
    ELSE Quiet

\* the callback without its try/catch
MetricsJobCallback_NoCatch(result) ==
    IF result = "rejected" THEN Unhandled ELSE Quiet

\* scheduler.js:92-99
MetricsJobCallback(result) ==
    IF result = "rejected"
    THEN Caught("tickCatch", "Error in metrics tracking job")
    ELSE Quiet

\* scheduler.js:57-59  this.postScheduledTweet().catch(logger.error)
InitialTweetCatch(result) ==
    IF result = "rejected"
    THEN Caught("warmupCatch", "Error in initial tweet job")
    ELSE Quiet

\* scheduler.js:79-81
InitialMentionsCatch(result) ==
    IF result = "rejected"
    THEN Caught("warmupCatch", "Error in initial mentions check")
    ELSE Quiet

\* a caller outside the scheduler that awaits the method: the rejection is
\* delivered to it
DirectCaller(result) ==
    IF result = "rejected"
    THEN [handler |-> "caller", logged |-> {}, uncaught |-> FALSE]
    ELSE Quiet

\* part_001:141-144 logs and rethrows; part_002:87-95, the route of
\* POST /api/bot/tweet, catches, logs and answers 500
ForceTweetRoute(result) ==
    IF result = "rejected"
    THEN [handler |-> "routeCatch",
          logged |-> {"Error posting generated tweet", "Error posting tweet"},
          uncaught |-> FALSE]
    ELSE Quiet

Handle(kind, origin, result) ==
    IF origin = "api" THEN ForceTweetRoute(result)
    ELSE IF origin = "tick"
    THEN IF kind = "post" THEN TweetJobCallback(result)
         ELSE IF kind = "mentions" THEN MentionsJobCallback(result)
         ELSE MetricsJobCallback(result)
    ELSE IF origin = "warmup"
    THEN IF kind = "post" THEN InitialTweetCatch(result)
         ELSE IF kind = "mentions" THEN InitialMentionsCatch(result)
         ELSE Unhandled
    ELSE DirectCaller(result)

\* The promise of invocation c settles, having ended as record e, and the
\* handler attached to it runs.
Settle(c, e, result, error, count) ==
    /\ calls' = calls (-) SetToBag({c})
    /\ last' = [kind |-> e.kind, origin |-> e.origin, pc |-> e.pc, result |-> result,
                error |-> error,
                handler |-> Handle(e.kind, e.origin, result).handler,
                count |-> count]
    /\ errorLog' = errorLog \cup Handle(e.kind, e.origin, result).logged
    /\ uncaught' = (uncaught \/ Handle(e.kind, e.origin, result).uncaught)

\* the method returns `count` (or nothing that is modelled, count = 0)
Resolve(c, e, count) == Settle(c, e, "resolved", "none", count)

\* the method throws `error`
Reject(c, error) == Settle(c, c, "rejected", error, 0)

\* Invocation c resumes and suspends again as record d.
Step(c, d) ==
    /\ calls' = (calls (-) SetToBag({c})) (+) SetToBag({d})
    /\ UNCHANGED <<last, uncaught, errorLog>>
    /\ UNCHANGED <<recentTokens, returned>>

\* no synchronous call has returned yet
NothingReturned == [op |-> "none"]

\* ------------------------------------------------------------------ Init
Init ==
    /\ now = 0
    /\ metricsCheckHours = DefaultMetricsCheckHours
    /\ jobs = [j \in JobTypes |-> NoTask]
    /\ cronTasks = <<>>
    /\ recentTweets = <<>>
    /\ calls = EmptyBag
    /\ last = NoneSettled
    /\ uncaught = FALSE
    /\ errorLog = {}
    /\ nextTweetId = 1
    /\ inbox = <<>>
    /\ repliedToMentions = {}
    /\ tweets = <<>>
    /\ metrics = <<>>
    /\ analyses = <<>>
    /\ recentTokens = <<>>
    /\ returned = NothingReturned
    /\ dbOpen = TRUE

\* ----------------------------------------------------------------- clock
Tick(limit) ==
    /\ now < limit
    /\ now' = now + 1
    /\ UNCHANGED <<metricsCheckHours, jobs, cronTasks, recentTweets, calls, last,
                   uncaught, errorLog, nextTweetId, inbox, repliedToMentions,
                   tweets, metrics, analyses>>
    /\ UNCHANGED <<recentTokens, returned, dbOpen>>

\* ------------------------------------------------- postScheduledTweet
\* scheduler.js:110  await contentService.gatherTweetContext(); every
\* sub-fetch of gatherTweetContext catches its own failure (content.js:74-78,
\* 124-127, 150-153), so the await always resolves with a context bundle.
PostAggregate(c) ==
    /\ BagIn(c, calls)
    /\ c.kind = "post" /\ c.pc = "aggregate"
    /\ Step(c, [c EXCEPT !.pc = "generate", !.idx = 1])
    /\ UNCHANGED <<now, metricsCheckHours, jobs, cronTasks, recentTweets,
                   nextTweetId, inbox, repliedToMentions, tweets, metrics,
                   analyses>>
    /\ UNCHANGED <<recentTokens, returned, dbOpen>>

\* a slip: the generation error is swallowed and the cycle goes on to publish
PostGenerate_Swallow(c, ok) ==
    /\ BagIn(c, calls)
    /\ c.kind = "post" /\ c.pc = "generate"
    /\ Step(c, [c EXCEPT !.pc = "publish", !.val = IF ok THEN 1 ELSE Null])
    /\ UNCHANGED <<now, metricsCheckHours, jobs, cronTasks, recentTweets,
                   nextTweetId, inbox, repliedToMentions, tweets, metrics,
                   analyses>>
    /\ UNCHANGED <<recentTokens, returned, dbOpen>>

\* scheduler.js:113  await llmService.generateTweet(context); 133-136 on failure
PostGenerate(c, ok) ==
    /\ BagIn(c, calls)
    /\ c.kind = "post" /\ c.pc = "generate"
    /\ IF ok
       THEN Step(c, [c EXCEPT !.pc = "publish", !.val = 1])
       ELSE Reject(c, "GenerationError")
    /\ UNCHANGED <<now, metricsCheckHours, jobs, cronTasks, recentTweets,
                   nextTweetId, inbox, repliedToMentions, tweets, metrics,
                   analyses>>
    /\ UNCHANGED <<recentTokens, returned, dbOpen>>

\* scheduler.js:116-132  await twitterService.postTweet(tweetContent), then
\* push, trim and return; 133-136 on failure
PostPublish(c, ok) ==
    /\ BagIn(c, calls)
    /\ c.kind = "post" /\ c.pc = "publish"
    /\ IF ok
       THEN /\ nextTweetId' = nextTweetId + 1
            /\ recentTweets' = PushAndTrim(recentTweets, Entry(nextTweetId, now))
            /\ Resolve(c, [c EXCEPT !.pc = "recorded"], 0)
       ELSE /\ Reject(c, "TransportError")
            /\ UNCHANGED <<nextTweetId, recentTweets>>
    /\ UNCHANGED <<now, metricsCheckHours, jobs, cronTasks, inbox,
                   repliedToMentions, tweets, metrics, analyses>>
    /\ UNCHANGED <<recentTokens, returned, dbOpen>>

\* llm.js:50-53  generatedText = response.data.choices[0].text.trim(): the
\* lengths of the text the gateway may return (max_tokens is 500, part_002:16)
TextLengths == {TweetMaxLength, TweetMaxLength + 1}

\* scheduler.js:113  await llmService.generateTweet(context) resolving with a
\* text of `len` characters; val = the length of tweetContent
PostGenerateText(c, len) ==
    /\ BagIn(c, calls)
    /\ c.kind = "post" /\ c.pc = "generate"
    /\ Step(c, [c EXCEPT !.pc = "publish", !.val = len])
    /\ UNCHANGED <<now, metricsCheckHours, jobs, cronTasks, recentTweets,
                   nextTweetId, inbox, repliedToMentions, tweets, metrics,
                   analyses>>
    /\ UNCHANGED dbOpen

\* --------------------------------------------- checkAndReplyToMentions
Mention(id, t) == [id |-> id, created_at |-> t]

RECURSIVE Reverse(_)
Reverse(seq) == IF seq = <<>> THEN <<>> ELSE Append(Reverse(Tail(seq)), Head(seq))

Take(seq, n) == SubSeq(seq, 1, IF Len(seq) < n THEN Len(seq) ELSE n)

\* twitter.js:69-98  the platform's search returns the newest mentions first,
\* at most `count` of them
GetMentions(count) == Take(Reverse(inbox), count)

RECURSIVE FilterFresh_Inclusive(_, _)
\* a slip: a mention exactly one hour old passes the filter
FilterFresh_Inclusive(seq, t) ==
    IF seq = <<>> THEN <<>>
    ELSE IF Head(seq).created_at >= t - MentionWindowHours
         THEN <<Head(seq)>> \o FilterFresh_Inclusive(Tail(seq), t)
         ELSE FilterFresh_Inclusive(Tail(seq), t)

RECURSIVE FilterFresh(_, _)
\* scheduler.js:150-157  mentions.filter(m => new Date(m.created_at) > oneHourAgo)
FilterFresh(seq, t) ==
    IF seq = <<>> THEN <<>>
    ELSE IF Head(seq).created_at > t - MentionWindowHours
         THEN <<Head(seq)>> \o FilterFresh(Tail(seq), t)
         ELSE FilterFresh(Tail(seq), t)

\* mentions older than the freshness window that the platform's search still
\* returns when the mention checks begin: as many as one request asks for
StaleMentions == MentionFetchCount

\* somebody mentions the bot on the platform
MentionArrives ==
    /\ Len(inbox) < StaleMentions + MaxMentions
    /\ inbox' = Append(inbox, Mention(Len(inbox) + 1, now))
    /\ UNCHANGED <<now, metricsCheckHours, jobs, cronTasks, recentTweets, calls,
                   last, uncaught, errorLog, nextTweetId, repliedToMentions,
                   tweets, metrics, analyses>>
    /\ UNCHANGED <<recentTokens, returned, dbOpen>>

\* scheduler.js:147-166  await getMentions(10), filter, enter the loop (or
\* return 0 when nothing is fresh); 167-170 on failure
MentionsFetch(c, ok) ==
    /\ BagIn(c, calls)
    /\ c.kind = "mentions" /\ c.pc = "getMentions"
    /\ IF ~ok
       THEN Reject(c, "TransportError")
       ELSE IF FilterFresh(GetMentions(MentionFetchCount), now) = <<>>
       THEN Resolve(c, [c EXCEPT !.pc = "returned"], 0)
       ELSE Step(c, [c EXCEPT !.pc = "replyContext", !.idx = 1,
                        !.list = FilterFresh(GetMentions(MentionFetchCount), now)])
    /\ UNCHANGED <<now, metricsCheckHours, jobs, cronTasks, recentTweets,
                   nextTweetId, inbox, repliedToMentions, tweets, metrics,
                   analyses>>
    /\ UNCHANGED <<recentTokens, returned, dbOpen>>

\* scheduler.js:185  await contentService.gatherReplyContext(...): its
\* sub-fetches catch their own failures (content.js:86-99, 135-154)
ReplyContext(c) ==
    /\ BagIn(c, calls)
    /\ c.kind = "mentions" /\ c.pc = "replyContext"
    /\ Step(c, [c EXCEPT !.pc = "replyGenerate"])
    /\ UNCHANGED <<now, metricsCheckHours, jobs, cronTasks, recentTweets,
                   nextTweetId, inbox, repliedToMentions, tweets, metrics,
                   analyses>>
    /\ UNCHANGED <<recentTokens, returned, dbOpen>>

\* scheduler.js:188  await llmService.generateReply(context); a failure is
\* rethrown by replyToMention (195-198), leaves the for loop (162-164) and is
\* rethrown by checkAndReplyToMentions (167-170)
ReplyGenerate(c, ok) ==
    /\ BagIn(c, calls)
    /\ c.kind = "mentions" /\ c.pc = "replyGenerate"
    /\ IF ok
       THEN Step(c, [c EXCEPT !.pc = "replyPublish"])
       ELSE Reject(c, "GenerationError")
    /\ UNCHANGED <<now, metricsCheckHours, jobs, cronTasks, recentTweets,
                   nextTweetId, inbox, repliedToMentions, tweets, metrics,
                   analyses>>
    /\ UNCHANGED <<recentTokens, returned, dbOpen>>

\* scheduler.js:191-194 with twitter.js:48-62  await replyToTweet(id, text);
\* on success the id is recorded and the loop goes to the next mention or the
\* method returns newMentions.length (166)
ReplyPublish(c, ok) ==
    /\ BagIn(c, calls)
    /\ c.kind = "mentions" /\ c.pc = "replyPublish"
    /\ IF ~ok
       THEN /\ Reject(c, "TransportError")
            /\ UNCHANGED repliedToMentions
       ELSE /\ repliedToMentions' = repliedToMentions \cup {c.list[c.idx].id}
            /\ IF c.idx = Len(c.list)
               THEN Resolve(c, [c EXCEPT !.pc = "returned",
                                   !.done = @ \cup {c.list[c.idx].id}],
                            Len(c.list))
               ELSE Step(c, [c EXCEPT !.pc = "replyContext", !.idx = @ + 1,
                                !.done = @ \cup {c.list[c.idx].id}])
    /\ UNCHANGED <<now, metricsCheckHours, jobs, cronTasks, recentTweets,
                   nextTweetId, inbox, tweets, metrics, analyses>>
    /\ UNCHANGED <<recentTokens, returned, dbOpen>>

\* ------------------------------------------------------- the store
\* responses of the platform to a metrics request (twitter.js:247-252 returns
\* tweet.data.public_metrics)
PublicMetrics ==
    << [like_count |-> 0, retweet_count |-> 0, reply_count |-> 0],
       [like_count |-> 2, retweet_count |-> 1, reply_count |-> 1] >>

Field(m, f) == IF f \in DOMAIN m THEN m[f] ELSE Null

\* part_003:104-112  const { likes, retweets, replies } = metrics; INSERT
SaveMetricsRow(tweetId, m, t) ==
    [tweet_id |-> tweetId, timestamp |-> t, likes |-> Field(m, "likes"),
     retweets |-> Field(m, "retweets"), replies |-> Field(m, "replies")]

\* part_003:206-216  ORDER BY created_at DESC LIMIT 1: the ids of the rows
\* that can come first
MostRecentIds(tw) ==
    {tw[i].id : i \in {j \in 1..Len(tw) : \A k \in 1..Len(tw) :
                                              tw[k].created_at <= tw[j].created_at}}

\* part_003:181-199
HasMetrics(ms, tweetId) == \E i \in 1..Len(ms) : ms[i].tweet_id = tweetId

\* ------------------------------------------------- trackTweetMetrics
Current(c) == c.list[c.idx]

\* a slip: a failed fetch ends the cycle quietly, returning the number of
\* entries done so far
TrackFetch_ReturnsOnFailure(c, ok) ==
    /\ BagIn(c, calls)
    /\ c.kind = "metrics" /\ c.pc = "fetch"
    /\ IF ok
       THEN \E k \in 1..Len(PublicMetrics) :
                Step(c, [c EXCEPT !.pc = "save", !.val = k])
       ELSE Resolve(c, c, c.idx - 1)
    /\ UNCHANGED <<now, metricsCheckHours, jobs, cronTasks, recentTweets,
                   nextTweetId, inbox, repliedToMentions, tweets, metrics,
                   analyses>>
    /\ UNCHANGED <<recentTokens, returned, dbOpen>>

\* metrics.js:20 with twitter.js:244-257  await getTweetMetrics(tweet.id);
\* a failure is rethrown by metrics.js:26-29 and scheduler.js:237-240
TrackFetch(c, ok) ==
    /\ BagIn(c, calls)
    /\ c.kind = "metrics" /\ c.pc = "fetch"
    /\ IF ok
       THEN \E k \in 1..Len(PublicMetrics) :
                Step(c, [c EXCEPT !.pc = "save", !.val = k])
       ELSE Reject(c, "TransportError")
    /\ UNCHANGED <<now, metricsCheckHours, jobs, cronTasks, recentTweets,
                   nextTweetId, inbox, repliedToMentions, tweets, metrics,
                   analyses>>
    /\ UNCHANGED <<recentTokens, returned, dbOpen>>

\* metrics.js:23 with part_003:104-124  await saveMetrics(tweetId, metrics);
\* the insert fails once the table is full, or when the connection is closed
TrackSave(c, ok) ==
    /\ BagIn(c, calls)
    /\ c.kind = "metrics" /\ c.pc = "save"
    /\ ok => (dbOpen /\ Len(metrics) < MaxSnapshots)
    /\ IF ok
       THEN /\ metrics' = Append(metrics,
                   SaveMetricsRow(Current(c).id, PublicMetrics[c.val], now))
            /\ Step(c, [c EXCEPT !.pc = "analyze",
                           !.done = @ \cup {Current(c).id}])
       ELSE /\ Reject(c, "StorageError")
            /\ UNCHANGED metrics
    /\ UNCHANGED <<now, metricsCheckHours, jobs, cronTasks, recentTweets,
                   nextTweetId, inbox, repliedToMentions, tweets, analyses>>
    /\ UNCHANGED <<recentTokens, returned, dbOpen>>

\* metrics.js:37-90  analyzeTweetPerformance(tweetId): the tweet must be the
\* most recently created row of the tweets table (42-45) and have a snapshot
\* (50-53), and the generation call must succeed (71); then the analysis is
\* saved (83).  The error it throws, "none" when it succeeds.
AnalysisError(tweetId, llmOk) ==
    IF ~dbOpen THEN "StorageError"
    ELSE IF tweets = <<>> \/ tweetId \notin MostRecentIds(tweets) THEN "NotFoundInDatabase"
    ELSE IF ~HasMetrics(metrics, tweetId) THEN "NoMetricsFound"
    ELSE IF ~llmOk THEN "GenerationError"
    ELSE "none"

\* a slip: the entry is removed before its analysis is awaited, at the
\* position it had in the list the cycle selected
TrackAnalyze_RemovesByPosition(c, llmOk) ==
    /\ BagIn(c, calls)
    /\ c.kind = "metrics" /\ c.pc = "analyze"
    /\ recentTweets' = IF c.idx <= Len(recentTweets)
                       THEN Splice(recentTweets, c.idx) ELSE recentTweets
    /\ IF AnalysisError(Current(c).id, llmOk) = "none"
       THEN /\ analyses' = Append(analyses,
                              [tweet_id |-> Current(c).id, timestamp |-> now])
            /\ Step(c, [c EXCEPT
                          !.pc = IF c.idx = Len(c.list)
                                 THEN "insights" ELSE "fetch",
                          !.idx = @ + 1])
       ELSE /\ Reject(c, AnalysisError(Current(c).id, llmOk))
            /\ UNCHANGED analyses
    /\ UNCHANGED <<now, metricsCheckHours, jobs, cronTasks, nextTweetId, inbox,
                   repliedToMentions, tweets, metrics>>
    /\ UNCHANGED <<recentTokens, returned, dbOpen>>

\* a slip: the entry is dropped from the watchlist even when its analysis threw
TrackAnalyze_RemovesOnFailure(c, llmOk) ==
    /\ BagIn(c, calls)
    /\ c.kind = "metrics" /\ c.pc = "analyze"
    /\ recentTweets' = RemoveFromWatchlist(recentTweets, Current(c).id)
    /\ IF AnalysisError(Current(c).id, llmOk) = "none"
       THEN /\ analyses' = Append(analyses,
                              [tweet_id |-> Current(c).id, timestamp |-> now])
            /\ Step(c, [c EXCEPT
                          !.pc = IF c.idx = Len(c.list)
                                 THEN "insights" ELSE "fetch",
                          !.idx = @ + 1])
       ELSE /\ Reject(c, AnalysisError(Current(c).id, llmOk))
            /\ UNCHANGED analyses
    /\ UNCHANGED <<now, metricsCheckHours, jobs, cronTasks, nextTweetId, inbox,
                   repliedToMentions, tweets, metrics>>
    /\ UNCHANGED <<recentTokens, returned, dbOpen>>

\* scheduler.js:223-230  await analyzeTweetPerformance(tweet.id), then remove
\* the entry and go on with the next one; 237-240 when the analysis throws
TrackAnalyze(c, llmOk) ==
    /\ BagIn(c, calls)
    /\ c.kind = "metrics" /\ c.pc = "analyze"
    /\ IF AnalysisError(Current(c).id, llmOk) = "none"
       THEN /\ analyses' = Append(analyses,
                              [tweet_id |-> Current(c).id, timestamp |-> now])
            /\ recentTweets' = RemoveFromWatchlist(recentTweets, Current(c).id)
            /\ Step(c, [c EXCEPT
                          !.pc = IF c.idx = Len(c.list)
                                 THEN "insights" ELSE "fetch",
                          !.idx = @ + 1])
       ELSE /\ Reject(c, AnalysisError(Current(c).id, llmOk))
            /\ UNCHANGED <<analyses, recentTweets>>
    /\ UNCHANGED <<now, metricsCheckHours, jobs, cronTasks, nextTweetId, inbox,
                   repliedToMentions, tweets, metrics>>
    /\ UNCHANGED <<recentTokens, returned, dbOpen>>

\* scheduler.js:233-236  await getPerformanceInsights(); return
\* tweetsToTrack.length; 237-240 when the store queries fail
TrackInsights(c, ok) ==
    /\ BagIn(c, calls)
    /\ c.kind = "metrics" /\ c.pc = "insights"
    /\ ok => dbOpen
    /\ IF ok
       THEN Resolve(c, [c EXCEPT !.pc = "returned"], Len(c.list))
       ELSE Reject(c, "StorageError")
    /\ UNCHANGED <<now, metricsCheckHours, jobs, cronTasks, recentTweets,
                   nextTweetId, inbox, repliedToMentions, tweets, metrics,
                   analyses>>
    /\ UNCHANGED <<recentTokens, returned, dbOpen>>

\* ------------------------------------------------------ the scheduler
KindOf(type) == IF type = "tweet" THEN "post" ELSE type

\* node-cron's schedule(): a new task that is active from its creation; the
\* scheduler keeps it under this.jobs[type], replacing what was there
Schedule(st, type) ==
    [st EXCEPT !.cronTasks = Append(@, [type |-> type, active |-> TRUE]),
               !.jobs = [@ EXCEPT ![type] = Len(st.cronTasks) + 1]]

\* the method is called without await: it runs up to its first suspension
RunNow(st, kind) == [st EXCEPT !.calls = Spawn(@, kind, "warmup")]

\* scheduler.js:42-60
startTweetJob(st) == RunNow(Schedule(st, "tweet"), "post")

\* scheduler.js:65-82
startMentionsCheckJob(st) == RunNow(Schedule(st, "mentions"), "mentions")

\* a slip: the metrics job also run immediately, as the other two are
startMetricsTrackingJob_RunsNow(st) == RunNow(Schedule(st, "metrics"), "metrics")

\* scheduler.js:87-100
startMetricsTrackingJob(st) == Schedule(st, "metrics")

\* scheduler.js:23-28
startAllJobs(st) == startMetricsTrackingJob(startMentionsCheckJob(startTweetJob(st)))

SchedulerState == [cronTasks |-> cronTasks, jobs |-> jobs, calls |-> calls]

StartAllJobs ==
    /\ Len(cronTasks) < 3 * MaxStarts
    /\ BagCardinality(calls) + 2 <= MaxCalls
    /\ PostsCommitted(calls) < MaxPosts
    /\ cronTasks' = startAllJobs(SchedulerState).cronTasks
    /\ jobs' = startAllJobs(SchedulerState).jobs
    /\ calls' = startAllJobs(SchedulerState).calls
    /\ UNCHANGED <<now, metricsCheckHours, recentTweets, last, uncaught, errorLog,
                   nextTweetId, inbox, repliedToMentions, tweets, metrics,
                   analyses>>
    /\ UNCHANGED <<recentTokens, returned, dbOpen>>

Registered == {jobs[j] : j \in {k \in JobTypes : jobs[k] # NoTask}}

\* a slip: stopping also drops the invocations in flight
StopAllJobs_AbortsCalls ==
    /\ cronTasks' = [t \in DOMAIN cronTasks |->
                        IF t \in Registered
                        THEN [cronTasks[t] EXCEPT !.active = FALSE]
                        ELSE cronTasks[t]]
    /\ jobs' = [j \in JobTypes |-> NoTask]
    /\ calls' = EmptyBag
    /\ UNCHANGED <<now, metricsCheckHours, recentTweets, last, uncaught,
                   errorLog, nextTweetId, inbox, repliedToMentions, tweets,
                   metrics, analyses, recentTokens, returned>>
    /\ UNCHANGED dbOpen

\* scheduler.js:33-37  Object.values(this.jobs).forEach(job => job.stop());
\* this.jobs = {}
StopAllJobs ==
    /\ cronTasks' = [t \in DOMAIN cronTasks |->
                        IF t \in Registered
                        THEN [cronTasks[t] EXCEPT !.active = FALSE]
                        ELSE cronTasks[t]]
    /\ jobs' = [j \in JobTypes |-> NoTask]
    /\ UNCHANGED <<now, metricsCheckHours, recentTweets, calls, last, uncaught,
                   errorLog, nextTweetId, inbox, repliedToMentions, tweets,
                   metrics, analyses>>
    /\ UNCHANGED <<recentTokens, returned, dbOpen>>

\* part_001:70-89  startBot(): the credentials are verified, then
\* scheduler.startAllJobs(); a failed verification is caught and false is
\* returned.  The store's connection is not touched.
StartBot(ok) ==
    /\ Len(cronTasks) < 3 * MaxStarts
    /\ BagCardinality(calls) + 2 <= MaxCalls
    /\ PostsCommitted(calls) < MaxPosts
    /\ IF ok
       THEN /\ cronTasks' = startAllJobs(SchedulerState).cronTasks
            /\ jobs' = startAllJobs(SchedulerState).jobs
            /\ calls' = startAllJobs(SchedulerState).calls
       ELSE UNCHANGED <<cronTasks, jobs, calls>>
    /\ returned' = [op |-> "startBot", value |-> ok]
    /\ UNCHANGED <<now, metricsCheckHours, recentTweets, last, uncaught, errorLog,
                   nextTweetId, inbox, repliedToMentions, tweets, metrics,
                   analyses, recentTokens, dbOpen>>

\* part_001:94-110  stopBot(): scheduler.stopAllJobs(), then
\* engagementModel.close() (part_003:274-276, this.db.close()).  Closing a
\* connection that is already closed makes the driver report an error that
\* nothing listens for.
StopBot ==
    /\ cronTasks' = [t \in DOMAIN cronTasks |->
                        IF t \in Registered
                        THEN [cronTasks[t] EXCEPT !.active = FALSE]
                        ELSE cronTasks[t]]
    /\ jobs' = [j \in JobTypes |-> NoTask]
    /\ dbOpen' = FALSE
    /\ uncaught' \in IF dbOpen THEN {uncaught} ELSE {uncaught, TRUE}
    /\ returned' = [op |-> "stopBot", value |-> TRUE]
    /\ UNCHANGED <<now, metricsCheckHours, recentTweets, calls, last, errorLog,
                   nextTweetId, inbox, repliedToMentions, tweets, metrics,
                   analyses, recentTokens>>

\* a period of task t elapses: node-cron runs its callback, which calls the
\* job's method (scheduler.js:47-50, 69-72, 92-95)
CronTick(t) ==
    /\ cronTasks[t].active
    /\ BagCardinality(calls) < MaxCalls
    /\ KindOf(cronTasks[t].type) = "post" => PostsCommitted(calls) < MaxPosts
    /\ calls' = Spawn(calls, KindOf(cronTasks[t].type), "tick")
    /\ UNCHANGED <<now, metricsCheckHours, jobs, cronTasks, recentTweets, last,
                   uncaught, errorLog, nextTweetId, inbox, repliedToMentions,
                   tweets, metrics, analyses>>
    /\ UNCHANGED <<recentTokens, returned, dbOpen>>

\* a caller outside the scheduler invokes one of its public async methods
Call(kind, postLimit) ==
    /\ BagCardinality(calls) < MaxCalls
    /\ kind = "post" => PostsCommitted(calls) < postLimit
    /\ calls' = Spawn(calls, kind, "direct")
    /\ UNCHANGED <<now, metricsCheckHours, jobs, cronTasks, recentTweets, last,
                   uncaught, errorLog, nextTweetId, inbox, repliedToMentions,
                   tweets, metrics, analyses>>
    /\ UNCHANGED <<recentTokens, returned, dbOpen>>

\* ------------------------------- BotController.generateAndPostTweet
\* part_002:87-89  POST /api/bot/tweet calls botController.generateAndPostTweet()
ForcePostRequest ==
    /\ BagCardinality(calls) < MaxCalls
    /\ PostsCommitted(calls) < MaxPosts
    /\ calls' = Spawn(calls, "force", "api")
    /\ UNCHANGED <<now, metricsCheckHours, jobs, cronTasks, recentTweets, last,
                   uncaught, errorLog, nextTweetId, inbox, repliedToMentions,
                   tweets, metrics, analyses, recentTokens, returned>>
    /\ UNCHANGED dbOpen

\* part_001:121  await contentService.gatherTweetContext(), which always
\* resolves
ForceAggregate(c) ==
    /\ BagIn(c, calls)
    /\ c.kind = "force" /\ c.pc = "aggregate"
    /\ Step(c, [c EXCEPT !.pc = "generate", !.idx = 1])
    /\ UNCHANGED <<now, metricsCheckHours, jobs, cronTasks, recentTweets,
                   nextTweetId, inbox, repliedToMentions, tweets, metrics,
                   analyses>>
    /\ UNCHANGED dbOpen

\* part_001:122  await llmService.generateTweet(context); 141-144 on failure
ForceGenerate(c, ok) ==
    /\ BagIn(c, calls)
    /\ c.kind = "force" /\ c.pc = "generate"
    /\ IF ok
       THEN Step(c, [c EXCEPT !.pc = "publish"])
       ELSE /\ Reject(c, "GenerationError")
            /\ UNCHANGED <<recentTokens, returned>>
    /\ UNCHANGED <<now, metricsCheckHours, jobs, cronTasks, recentTweets,
                   nextTweetId, inbox, repliedToMentions, tweets, metrics,
                   analyses>>
    /\ UNCHANGED dbOpen

\* part_001:125  const tweet = await twitterService.postTweet(tweetContent);
\* val = tweet.id; 141-144 on failure
ForcePublish(c, ok) ==
    /\ BagIn(c, calls)
    /\ c.kind = "force" /\ c.pc = "publish"
    /\ IF ok
       THEN /\ nextTweetId' = nextTweetId + 1
            /\ Step(c, [c EXCEPT !.pc = "saveTweet", !.val = nextTweetId])
       ELSE /\ Reject(c, "TransportError")
            /\ UNCHANGED <<nextTweetId, recentTokens, returned>>
    /\ UNCHANGED <<now, metricsCheckHours, jobs, cronTasks, recentTweets, inbox,
                   repliedToMentions, tweets, metrics, analyses>>
    /\ UNCHANGED dbOpen

\* part_001:128-140  await engagementModel.saveTweet({id: tweet.id, ...}),
\* then return tweet; 141-144 on failure.  The watchlist is not touched.
ForceSave(c, ok) ==
    /\ BagIn(c, calls)
    /\ c.kind = "force" /\ c.pc = "saveTweet"
    /\ ok => dbOpen
    /\ IF ok
       THEN /\ tweets' = Append(tweets, [id |-> c.val, created_at |-> now])
            /\ Resolve(c, [c EXCEPT !.pc = "returned"], 0)
       ELSE /\ Reject(c, "StoreError")
            /\ UNCHANGED tweets
    /\ UNCHANGED <<now, metricsCheckHours, jobs, cronTasks, recentTweets,
                   nextTweetId, inbox, repliedToMentions, metrics, analyses,
                   recentTokens, returned>>
    /\ UNCHANGED dbOpen

\* ------------------------------------------- the store, called directly
\* metrics objects in the shape saveMetrics reads (part_003:106)
MetricsInputs ==
    { [likes |-> 0, retweets |-> 1, replies |-> 0],
      [likes |-> 1, retweets |-> 0, replies |-> 1] }

Range(f) == {f[x] : x \in DOMAIN f}

AtMost(n, m) == IF n < m THEN n ELSE m

\* ORDER BY <field> DESC LIMIT <limit> over the rows S: the sequences the
\* database may return (rows that tie come in any order)
QueryResults(S, field, limit) ==
    {f \in [1..AtMost(limit, Cardinality(S)) -> S] :
        /\ \A a, b \in DOMAIN f : a < b => (f[a] # f[b] /\ f[a][field] >= f[b][field])
        /\ \A r \in S \ Range(f) : \A a \in DOMAIN f : r[field] <= f[a][field]}

\* part_003:253  (m.likes + m.retweets * 2 + m.replies * 3): NULL when an
\* operand is NULL, and NULL sorts below every number
SqlScore(m) ==
    IF Null \in {m.likes, m.retweets, m.replies} THEN Null
    ELSE m.likes + m.retweets * 2 + m.replies * 3

\* metrics.js:108  (tweet.likes || 0) + (tweet.retweets || 0) * 2 + (tweet.replies || 0) * 3
OrZero(x) == IF x = Null THEN 0 ELSE x

InsightsEngagement(row) ==
    OrZero(row.likes) + OrZero(row.retweets) * 2 + OrZero(row.replies) * 3

\* database.js:117-120  calculateEngagementScore(likes, retweets, replies)
calculateEngagementScore(likes, retweets, replies) ==
    (likes * 1) + (retweets * 3) + (replies * 2)

\* the row of the result for post i joined to snapshot j (j = 0: no snapshot,
\* NULL metric fields)
ResultRow(i, j) ==
    [id |-> tweets[i].id, created_at |-> tweets[i].created_at,
     likes |-> IF j = 0 THEN Null ELSE metrics[j].likes,
     retweets |-> IF j = 0 THEN Null ELSE metrics[j].retweets,
     replies |-> IF j = 0 THEN Null ELSE metrics[j].replies,
     engagement_score |-> IF j = 0 THEN Null ELSE SqlScore(metrics[j]),
     snapshot |-> j]

SnapshotsOf(id) == {j \in 1..Len(metrics) : metrics[j].tweet_id = id}

\* ORDER BY timestamp DESC LIMIT 1 over the snapshots of a post: the rows that
\* can come first, 0 when there is none
LatestSnapshots(id) ==
    IF SnapshotsOf(id) = {} THEN {0}
    ELSE {j \in SnapshotsOf(id) :
            \A k \in SnapshotsOf(id) : metrics[k].timestamp <= metrics[j].timestamp}

\* a slip: LEFT JOIN, which also yields the posts that have no snapshot
JoinRows_Left ==
    UNION {{ResultRow(i, j) : j \in IF SnapshotsOf(tweets[i].id) = {}
                                   THEN {0} ELSE SnapshotsOf(tweets[i].id)}
             : i \in 1..Len(tweets)}

\* part_003:254-255  FROM tweets t JOIN metrics m ON t.id = m.tweet_id
JoinRows ==
    UNION {{ResultRow(i, j) : j \in SnapshotsOf(tweets[i].id)} : i \in 1..Len(tweets)}

\* part_003:209-213  each post with the fields of its latest snapshot, for one
\* way the database breaks ties between snapshots
RecentRows ==
    {S \in SUBSET UNION {{ResultRow(i, j) : j \in LatestSnapshots(tweets[i].id)}
                             : i \in 1..Len(tweets)} :
        \A i \in 1..Len(tweets) :
            Cardinality({r \in S : r.id = tweets[i].id}) = 1}

\* limits the program passes: metrics.js:42 (1), 56 and 101 (5)
Limits == {1, 5}

\* part_003:76-96  saveTweet: INSERT INTO tweets; the post's id is assigned by
\* the platform
SaveTweet ==
    /\ Len(tweets) < MaxPosts
    /\ tweets' = Append(tweets, [id |-> nextTweetId, created_at |-> now])
    /\ nextTweetId' = nextTweetId + 1
    /\ returned' = [op |-> "saveTweet", id |-> nextTweetId]
    /\ UNCHANGED <<now, metricsCheckHours, jobs, cronTasks, recentTweets, calls,
                   last, uncaught, errorLog, inbox, repliedToMentions, metrics,
                   analyses, recentTokens>>
    /\ UNCHANGED dbOpen

\* part_003:104-124  saveMetrics(tweetId, metrics), for a post of the store
SaveMetrics(tweetId, m) ==
    /\ Len(metrics) <= MaxSnapshots
    /\ tweetId \in Ids(tweets)
    /\ metrics' = Append(metrics, SaveMetricsRow(tweetId, m, now))
    /\ returned' = [op |-> "saveMetrics", id |-> tweetId]
    /\ UNCHANGED <<now, metricsCheckHours, jobs, cronTasks, recentTweets, calls,
                   last, uncaught, errorLog, nextTweetId, inbox, repliedToMentions,
                   tweets, analyses, recentTokens>>
    /\ UNCHANGED dbOpen

\* part_003:206-239  getRecentTweetsWithMetrics(limit)
GetRecentTweetsWithMetrics(limit) ==
    /\ \E S \in RecentRows : \E rows \in QueryResults(S, "created_at", limit) :
          returned' = [op |-> "getRecentTweetsWithMetrics", limit |-> limit,
                       rows |-> rows]
    /\ UNCHANGED <<now, metricsCheckHours, jobs, cronTasks, recentTweets, calls,
                   last, uncaught, errorLog, nextTweetId, inbox, repliedToMentions,
                   tweets, metrics, analyses, recentTokens>>
    /\ UNCHANGED dbOpen

\* part_003:246-269  getTopPerformingTweets(limit)
GetTopPerformingTweets(limit) ==
    /\ \E rows \in QueryResults(JoinRows, "engagement_score", limit) :
          returned' = [op |-> "getTopPerformingTweets", limit |-> limit,
                       rows |-> rows]
    /\ UNCHANGED <<now, metricsCheckHours, jobs, cronTasks, recentTweets, calls,
                   last, uncaught, errorLog, nextTweetId, inbox, repliedToMentions,
                   tweets, metrics, analyses, recentTokens>>
    /\ UNCHANGED dbOpen

\* ------------------------------------------------------- isRecentToken
\* symbols as callers spell them
Symbols == {"doge", "DOGE", "pepe"}

\* String.prototype.toUpperCase on Symbols
ToUpperCase(symbol) ==
    IF symbol = "doge" THEN "DOGE"
    ELSE IF symbol = "pepe" THEN "PEPE"
    ELSE symbol

\* Map.prototype.set(key, value)
MapSet(map, key, value) ==
    [k \in DOMAIN map \cup {key} |-> IF k = key THEN value ELSE map[k]]

\* the call record of isRecentToken(symbol) made at time t that returned value
TokenAnswer(symbol, t, value) ==
    [op |-> "isRecentToken", arg |-> symbol, at |-> t, value |-> value]

\* a slip: the symbol is used as the key without being normalized
IsRecentToken_CaseSensitive(symbol) ==
    /\ IF symbol \notin DOMAIN recentTokens
       THEN /\ recentTokens' = MapSet(recentTokens, symbol, now)
            /\ returned' = TokenAnswer(symbol, now, TRUE)
       ELSE /\ returned' = TokenAnswer(symbol, now,
                               now - recentTokens[symbol] < TokenFreshHours)
            /\ UNCHANGED recentTokens
    /\ UNCHANGED <<now, metricsCheckHours, jobs, cronTasks, recentTweets, calls,
                   last, uncaught, errorLog, nextTweetId, inbox, repliedToMentions,
                   tweets, metrics, analyses>>
    /\ UNCHANGED dbOpen

\* twitter.js:208-223  isRecentToken(symbol)
IsRecentToken(symbol) ==
    /\ IF ToUpperCase(symbol) \notin DOMAIN recentTokens
       THEN /\ recentTokens' = MapSet(recentTokens, ToUpperCase(symbol), now)
            /\ returned' = TokenAnswer(symbol, now, TRUE)
       ELSE /\ returned' = TokenAnswer(symbol, now,
                               now - recentTokens[ToUpperCase(symbol)] < TokenFreshHours)
            /\ UNCHANGED recentTokens
    /\ UNCHANGED <<now, metricsCheckHours, jobs, cronTasks, recentTweets, calls,
                   last, uncaught, errorLog, nextTweetId, inbox, repliedToMentions,
                   tweets, metrics, analyses>>
    /\ UNCHANGED dbOpen

\* the clock of the token runs: hour by hour over 0..MaxTime, then again from
\* one hour short of the freshness window to MaxTime hours past it
TokenTick ==
    /\ now < MaxTime \/ (now >= TokenFreshHours - 1 /\ now < TokenFreshHours + MaxTime)
    /\ now' = now + 1
    /\ UNCHANGED <<metricsCheckHours, jobs, cronTasks, recentTweets, calls, last,
                   uncaught, errorLog, nextTweetId, inbox, repliedToMentions,
                   tweets, metrics, analyses, recentTokens, returned>>
    /\ UNCHANGED dbOpen

\* nothing is asked for one hour short of the freshness window
TokenWait ==
    /\ now <= MaxTime
    /\ now' = now + TokenFreshHours - 1
    /\ UNCHANGED <<metricsCheckHours, jobs, cronTasks, recentTweets, calls, last,
                   uncaught, errorLog, nextTweetId, inbox, repliedToMentions,
                   tweets, metrics, analyses, recentTokens, returned>>
    /\ UNCHANGED dbOpen

\* ------------------------------------ analyzeTweetPerformance, called directly
\* metrics.js:37-90  analyzeTweetPerformance(tweetId) on the store as it is:
\* the analysis is saved (83) unless one of the checks or the generation call
\* throws
AnalyzeTweetPerformance(tweetId, llmOk) ==
    /\ Len(analyses) <= MaxSnapshots
    /\ analyses' = IF AnalysisError(tweetId, llmOk) = "none"
                   THEN Append(analyses, [tweet_id |-> tweetId, timestamp |-> now])
                   ELSE analyses
    /\ returned' = [op |-> "analyzeTweetPerformance", id |-> tweetId,
                    llmOk |-> llmOk, error |-> AnalysisError(tweetId, llmOk),
                    saved |-> Len(analyses') - Len(analyses)]
    /\ UNCHANGED <<now, metricsCheckHours, jobs, cronTasks, recentTweets, calls,
                   last, uncaught, errorLog, nextTweetId, inbox, repliedToMentions,
                   tweets, metrics, recentTokens>>
    /\ UNCHANGED dbOpen

\* ------------------------------------------------- gatherTweetContext
\* symbols of the coins the trending search may list
TrendingSymbols == {"doge", "DOGE", "wbtc"}

\* content.js:46-61  the memecoin heuristic on TrendingSymbols: a symbol of
\* at most four letters passes unless it contains btc or eth
IsMemecoinLike(symbol) == symbol # "wbtc"

RECURSIVE SeqsUpTo(_, _)
\* the sequences over S of length at most n
SeqsUpTo(S, n) ==
    IF n = 0 THEN {<<>>}
    ELSE SeqsUpTo(S, n - 1)
         \cup {Append(s, x) : s \in {t \in SeqsUpTo(S, n - 1) : Len(t) = n - 1}, x \in S}

\* content.js:38-42  what the trending search gave: a failed request or an
\* unusable response (ok = FALSE), or the coins it listed
TrendingAnswers ==
    {[ok |-> FALSE, coins |-> <<>>]}
    \cup {[ok |-> TRUE, coins |-> s] : s \in SeqsUpTo(TrendingSymbols, MaxCoins)}

\* twitter.js:120-185  what the platform gave for the tweets of followed
\* accounts: a failed request (ok = FALSE), or the tweets with their authors
\* and scores
FollowingAnswers ==
    { [ok |-> FALSE, tweets |-> <<>>],
      [ok |-> TRUE, tweets |-> <<>>],
      [ok |-> TRUE, tweets |-> <<[author_username |-> "alice", engagement_score |-> 3]>>] }

RECURSIVE MarkRecent(_, _, _)
\* content.js:63-70  .map(coin => ({symbol, isRecent: isRecentToken(symbol)})),
\* coin after coin, each call reading and updating the map of first
\* sightings (twitter.js:208-223)
MarkRecent(coins, map, t) ==
    IF coins = <<>> THEN [list |-> <<>>, map |-> map]
    ELSE LET key == ToUpperCase(Head(coins))
             seen == key \in DOMAIN map
             rest == MarkRecent(Tail(coins),
                                IF seen THEN map ELSE MapSet(map, key, t), t)
         IN  [list |-> <<[symbol |-> Head(coins),
                          isRecent |-> IF seen THEN t - map[key] < TokenFreshHours
                                       ELSE TRUE]>> \o rest.list,
              map |-> rest.map]

\* a slip: the failure of the trending search is not caught
getTrendingMemecoins_NoCatch(answer, limit, map, t) ==
    IF answer.ok
    THEN [raised |-> FALSE] @@
         MarkRecent(Take(SelectSeq(answer.coins, IsMemecoinLike), limit), map, t)
    ELSE [raised |-> TRUE, list |-> <<>>, map |-> map]

\* content.js:22-79  getTrendingMemecoins(limit): raised = the promise rejects
getTrendingMemecoins(answer, limit, map, t) ==
    IF answer.ok
    THEN [raised |-> FALSE] @@
         MarkRecent(Take(SelectSeq(answer.coins, IsMemecoinLike), limit), map, t)
    ELSE [raised |-> FALSE, list |-> <<>>, map |-> map]

\* content.js:105-128  getRecentEvents()
getRecentEvents ==
    [raised |-> FALSE,
     list |-> <<"Solana ecosystem growth", "New memecoin launches",
                "DEX volume increases", "Major protocol upgrades",
                "Crypto influencer activity">>]

\* twitter.js:120-185  getPopularTweetsFromFollowing: a failure is caught and
\* an empty array returned
getPopularTweetsFromFollowing(answer) == IF answer.ok THEN answer.tweets ELSE <<>>

\* content.js:142-146  the tweet as formatted for the generation gateway
FormatTweet(tweet) ==
    [author |-> <<"@", tweet.author_username>>, engagement |-> tweet.engagement_score]

\* content.js:135-154  getTrendingTweets(limit)
getTrendingTweets(answer, limit) ==
    [raised |-> FALSE,
     list |-> [i \in 1..Len(Take(getPopularTweetsFromFollowing(answer), limit))
                  |-> FormatTweet(getPopularTweetsFromFollowing(answer)[i])]]

RECURSIVE FilterRecent(_)
\* content.js:199  trendingCoins.filter(coin => coin.isRecent)
FilterRecent(coins) ==
    IF coins = <<>> THEN <<>>
    ELSE IF Head(coins).isRecent
         THEN <<Head(coins)>> \o FilterRecent(Tail(coins))
         ELSE FilterRecent(Tail(coins))

\* content.js:203-204  coin => `${coin.name} (${coin.symbol})`
CoinLabel(coin) == <<coin.symbol, "(", coin.symbol, ")">>

CoinLabels(coins) == [i \in 1..Len(coins) |-> CoinLabel(coins[i])]

\* content.js:189-207  gatherTweetContext(), given what the trending search
\* and the platform answer: Promise.all rejects when one of the three
\* promises rejects, otherwise the bundle is built
GatherTweetContext(coinsAnswer, tweetsAnswer) ==
    LET coins == getTrendingMemecoins(coinsAnswer, 5, recentTokens, now)
        events == getRecentEvents
        trending == getTrendingTweets(tweetsAnswer, 3)
    IN  /\ recentTokens' = coins.map
        /\ returned' =
             IF coins.raised \/ events.raised \/ trending.raised
             THEN [op |-> "gatherTweetContext", coins |-> coinsAnswer,
                   tweets |-> tweetsAnswer, result |-> "rejected"]
             ELSE [op |-> "gatherTweetContext", coins |-> coinsAnswer,
                   tweets |-> tweetsAnswer, result |-> "resolved",
                   context |-> [recentEvents |-> events.list,
                                topCoins |-> CoinLabels(coins.list),
                                recentTokens |-> CoinLabels(FilterRecent(coins.list)),
                                trendingTweets |-> trending.list]]
        /\ UNCHANGED <<now, metricsCheckHours, jobs, cronTasks, recentTweets,
                       calls, last, uncaught, errorLog, nextTweetId, inbox,
                       repliedToMentions, tweets, metrics, analyses>>
        /\ UNCHANGED dbOpen

\* ------------------------------------------- the recurring triggers' times
\* the hour field of a cron expression ranges over 0..23
HoursPerDay == 24

\* part_002:29-30  the intervals TWEET_INTERVAL_HOURS and METRICS_CHECK_HOURS
\* may configure
Intervals == 1..(HoursPerDay - 1)

\* scheduler.js:47, 92  the expression `0 */${N} * * *`: minute 0 of every hour
\* of the day that is a multiple of N, counted from 0
CronMatches(hour, n) == (hour % HoursPerDay) % n = 0

\* no firing of the trigger has been seen yet
NeverFired == [op |-> "cronFire", at |-> Null, before |-> Null]

\* the scheduler constructed with an interval of the configuration, at
\* midnight, the trigger registered
InitCron ==
    /\ now = 0
    /\ metricsCheckHours \in Intervals
    /\ jobs = [j \in JobTypes |-> NoTask]
    /\ cronTasks = <<>>
    /\ recentTweets = <<>>
    /\ calls = EmptyBag
    /\ last = NoneSettled
    /\ uncaught = FALSE
    /\ errorLog = {}
    /\ nextTweetId = 1
    /\ inbox = <<>>
    /\ repliedToMentions = {}
    /\ tweets = <<>>
    /\ metrics = <<>>
    /\ analyses = <<>>
    /\ recentTokens = <<>>
    /\ returned = NeverFired
    /\ dbOpen = TRUE

\* an hour passes; the trigger fires when the new hour matches its
\* expression, and `returned` keeps the times of this firing and the one before
CronHour ==
    /\ now < MaxDays * HoursPerDay
    /\ now' = now + 1
    /\ returned' = IF CronMatches(now + 1, metricsCheckHours)
                   THEN [op |-> "cronFire", at |-> now + 1, before |-> returned.at]
                   ELSE returned
    /\ UNCHANGED <<metricsCheckHours, jobs, cronTasks, recentTweets, calls, last,
                   uncaught, errorLog, nextTweetId, inbox, repliedToMentions,
                   tweets, metrics, analyses, recentTokens>>
    /\ UNCHANGED dbOpen

SpecCron == InitCron /\ [][CronHour]_vars

\* --------------------------------------------------------- specifications
PostSteps ==
    \E c \in BagToSet(calls) :
        \/ PostAggregate(c)
        \/ \E ok \in BOOLEAN : PostGenerate(c, ok)
        \/ \E ok \in BOOLEAN : PostPublish(c, ok)

MentionSteps ==
    \E c \in BagToSet(calls) :
        \/ \E ok \in BOOLEAN : MentionsFetch(c, ok)
        \/ ReplyContext(c)
        \/ \E ok \in BOOLEAN : ReplyGenerate(c, ok)
        \/ \E ok \in BOOLEAN : ReplyPublish(c, ok)

TrackSteps ==
    \E c \in BagToSet(calls) :
        \/ \E ok \in BOOLEAN : TrackFetch(c, ok)
        \/ \E ok \in BOOLEAN : TrackSave(c, ok)
        \/ \E ok \in BOOLEAN : TrackAnalyze(c, ok)
        \/ \E ok \in BOOLEAN : TrackInsights(c, ok)

\* The scheduler's life cycle: start, stop, cron ticks and the jobs they run.
\* The clock stands still and the platform holds no mention, so a mention
\* check finds nothing to reply to and a tracking cycle nothing mature.
NextJobs ==
    \/ StartAllJobs
    \/ StopAllJobs
    \/ \E t \in DOMAIN cronTasks : CronTick(t)
    \/ PostSteps
    \/ \E c \in BagToSet(calls), ok \in BOOLEAN : MentionsFetch(c, ok)
    \/ \E c \in BagToSet(calls), ok \in BOOLEAN : TrackInsights(c, ok)

SpecJobs == Init /\ [][NextJobs]_vars

\* Posting and metrics tracking, called directly, as the clock advances.
Next ==
    \/ Tick(MaxTime)
    \/ Call("post", MaxPosts)
    \/ Call("metrics", MaxPosts)
    \/ PostSteps
    \/ TrackSteps

Spec == Init /\ [][Next]_vars

\* Posting, called directly, with the length of the generated text in view.
NextLength ==
    \/ Tick(MaxCapTime)
    \/ Call("post", MaxPosts)
    \/ PostSteps
    \/ \E c \in BagToSet(calls), len \in TextLengths : PostGenerateText(c, len)

SpecLength == Init /\ [][NextLength]_vars

\* Context bundles gathered as the clock advances and the first sightings of
\* tokens age.
NextContext ==
    \/ TokenTick
    \/ TokenWait
    \/ \E coinsAnswer \in TrendingAnswers, tweetsAnswer \in FollowingAnswers :
          GatherTweetContext(coinsAnswer, tweetsAnswer)

SpecContext == Init /\ [][NextContext]_vars

\* Posts and snapshots written to the store and analyses asked for, as the
\* clock advances.
NextAnalysis ==
    \/ Tick(MaxSnapshots)
    \/ SaveTweet
    \/ \E tweetId \in 1..MaxPosts, m \in MetricsInputs : SaveMetrics(tweetId, m)
    \/ \E tweetId \in 1..MaxPosts, llmOk \in BOOLEAN :
          AnalyzeTweetPerformance(tweetId, llmOk)

SpecAnalysis == Init /\ [][NextAnalysis]_vars

\* The bot started and stopped through its controller, the triggers ticking
\* and the jobs running.  As in NextJobs the clock stands still, so a
\* tracking cycle finds nothing mature and goes straight to the store for
\* its Insight.
NextBot ==
    \/ \E ok \in BOOLEAN : StartBot(ok)
    \/ StopBot
    \/ \E t \in DOMAIN cronTasks : CronTick(t)
    \/ PostSteps
    \/ \E c \in BagToSet(calls), ok \in BOOLEAN : MentionsFetch(c, ok)
    \/ \E c \in BagToSet(calls), ok \in BOOLEAN : TrackInsights(c, ok)

SpecBot == Init /\ [][NextBot]_vars

ForceSteps ==
    \E c \in BagToSet(calls) :
        \/ ForceAggregate(c)
        \/ \E ok \in BOOLEAN : ForceGenerate(c, ok)
        \/ \E ok \in BOOLEAN : ForcePublish(c, ok)
        \/ \E ok \in BOOLEAN : ForceSave(c, ok)

\* Posts made by the scheduler and posts forced through the control API, as
\* the clock advances.
NextAdmin ==
    \/ Tick(MaxCapTime)
    \/ Call("post", MaxPosts)
    \/ ForcePostRequest
    \/ PostSteps
    \/ ForceSteps

SpecAdmin == Init /\ [][NextAdmin]_vars

\* Mention checks, called directly, as mentions arrive and the clock advances.
NextMentions ==
    \/ Tick(MaxCapTime)
    \/ MentionArrives
    \/ Call("mentions", MaxPosts)
    \/ MentionSteps

\* the scheduler is constructed while the platform already holds
\* StaleMentions mentions of the bot, all older than the freshness window
InitMentions ==
    /\ now = 0
    /\ metricsCheckHours = DefaultMetricsCheckHours
    /\ jobs = [j \in JobTypes |-> NoTask]
    /\ cronTasks = <<>>
    /\ recentTweets = <<>>
    /\ calls = EmptyBag
    /\ last = NoneSettled
    /\ uncaught = FALSE
    /\ errorLog = {}
    /\ nextTweetId = 1
    /\ inbox = [i \in 1..StaleMentions |-> Mention(i, 0 - MentionWindowHours - 1)]
    /\ repliedToMentions = {}
    /\ tweets = <<>>
    /\ metrics = <<>>
    /\ analyses = <<>>
    /\ recentTokens = <<>>
    /\ returned = NothingReturned
    /\ dbOpen = TRUE

SpecMentions == InitMentions /\ [][NextMentions]_vars

\* The watchlist near its cap: WatchlistCap - 1 posts were published in hour 0,
\* by a scheduler configured with METRICS_CHECK_HOURS=1.
CapPrefill == WatchlistCap - 1

InitCap ==
    /\ now = 0
    /\ metricsCheckHours = 1
    /\ jobs = [j \in JobTypes |-> NoTask]
    /\ cronTasks = <<>>
    /\ recentTweets = [i \in 1..CapPrefill |-> Entry(i, 0)]
    /\ calls = EmptyBag
    /\ last = NoneSettled
    /\ uncaught = FALSE
    /\ errorLog = {}
    /\ nextTweetId = CapPrefill + 1
    /\ inbox = <<>>
    /\ repliedToMentions = {}
    /\ tweets = <<>>
    /\ metrics = <<>>
    /\ analyses = <<>>
    /\ recentTokens = <<>>
    /\ returned = NothingReturned
    /\ dbOpen = TRUE

NextCap ==
    \/ Tick(MaxCapTime)
    \/ Call("post", CapPrefill + MaxPosts)
    \/ Call("metrics", CapPrefill + MaxPosts)
    \/ PostSteps
    \/ TrackSteps

SpecCap == InitCap /\ [][NextCap]_vars

\* The store, written and queried directly, as the clock advances.
NextStore ==
    \/ Tick(MaxSnapshots)
    \/ SaveTweet
    \/ \E tweetId \in 1..MaxPosts, m \in MetricsInputs : SaveMetrics(tweetId, m)
    \/ \E limit \in Limits : GetRecentTweetsWithMetrics(limit)
    \/ \E limit \in Limits : GetTopPerformingTweets(limit)

SpecStore == Init /\ [][NextStore]_vars

\* Freshness queries on token symbols as time passes.
NextTokens ==
    \/ TokenTick
    \/ TokenWait
    \/ \E symbol \in Symbols : IsRecentToken(symbol)

SpecTokens == Init /\ [][NextTokens]_vars

\* ============================================================ properties
\* c's promise settles in this step
Settles(c) == BagIn(c, calls) /\ calls' = calls (-) SetToBag({c})

\* an invocation with the given origin is started in this step
Starts(origin) ==
    \E d \in BagToSet(calls') :
        /\ d.origin = origin
        /\ d.pc \in {"aggregate", "getMentions"} \/ (d.kind = "metrics" /\ d.done = {})
        /\ CopiesIn(d, calls') > CopiesIn(d, calls)
        /\ BagCardinality(calls') = BagCardinality(calls) + 1

WarmupRuns(cs, kind) ==
    BagCardinality([c \in {d \in BagToSet(cs) : d.kind = kind /\ d.origin = "warmup"}
                       |-> CopiesIn(c, cs)])

ActiveTriggers(type) ==
    {t \in DOMAIN cronTasks : cronTasks[t].type = type /\ cronTasks[t].active}

AllRegistered ==
    \A j \in JobTypes : jobs[j] # NoTask /\ cronTasks[jobs[j]].active

NoneRegistered == \A j \in JobTypes : jobs[j] = NoTask

\* C1: when a mention check that found fresh mentions ends, it has resolved
\* (a failure of one reply is not raised out of checkAndReplyToMentions) and
\* every fresh mention of the batch other than the one whose reply failed has
\* been replied to.
C1_MentionIsolation ==
    [][\A c \in BagToSet(calls) :
         (c.kind = "mentions" /\ c.list # <<>> /\ Settles(c))
         => /\ last'.result = "resolved"
            /\ \A i \in 1..Len(c.list) :
                 i # c.idx => c.list[i].id \in repliedToMentions']_vars

\* C2: when a tracking cycle returns or throws, every entry of its
\* tweetsToTrack whose snapshot it saved is absent from the watchlist.
C2_SnapshotTakenImpliesRemoved ==
    [][\A c \in BagToSet(calls) :
         (c.kind = "metrics" /\ Settles(c))
         => \A i \in 1..Len(c.list) :
              c.list[i].id \in c.done => c.list[i].id \notin Ids(recentTweets')]_vars

\* an entry of the old watchlist that the new watchlist no longer holds
Evicted == {i \in 1..Len(recentTweets) : recentTweets[i].id \notin Ids(recentTweets')}

\* C3: the watchlist never holds more than 20 entries, and an append to a
\* full watchlist evicts exactly one entry, one whose creation time is the
\* oldest, and keeps the new entry.
C3_WatchlistCap ==
    /\ [](Len(recentTweets) <= WatchlistCap)
    /\ [][(nextTweetId' = nextTweetId + 1 /\ Len(recentTweets) = WatchlistCap)
          => /\ Cardinality(Evicted) = 1
             /\ \A i \in Evicted : \A j \in 1..Len(recentTweets) :
                    recentTweets[i].createdAt <= recentTweets[j].createdAt
             /\ nextTweetId \in Ids(recentTweets')]_vars

\* a full watchlist from which the first post has been evicted and whose
\* entries were created at different hours
C3_Witness ==
    /\ Len(recentTweets) = WatchlistCap
    /\ 1 \notin Ids(recentTweets)
    /\ recentTweets[1].createdAt < recentTweets[WatchlistCap].createdAt

\* C4: at no time are two invocations of the same job type in flight.
C4_OneInvocationPerJob ==
    \A kind \in {"post", "mentions", "metrics"} : InFlight(calls, kind) <= 1

\* C5: however often startAllJobs was called, each job type has at most one
\* active recurring trigger, and exactly one while the jobs are registered.
C5_OneTriggerPerJob ==
    \A j \in JobTypes :
        /\ Cardinality(ActiveTriggers(j)) <= 1
        /\ jobs[j] # NoTask => ActiveTriggers(j) = {jobs[j]}

\* C6: while no job is registered (stopAllJobs has returned and startAllJobs
\* has not been called since) no recurring trigger starts an action.
C6_NoTickAfterStop ==
    [][NoneRegistered => ~Starts("tick")]_vars

\* C7: a call of startAllJobs starts exactly one immediate run of
\* postScheduledTweet, one of checkAndReplyToMentions and none of
\* trackTweetMetrics, and registers the three triggers; an immediate run that
\* fails is caught by its .catch and logged, nothing is left unhandled, and
\* the triggers stay as they were.
C7_WarmupRuns ==
    /\ [][Len(cronTasks') > Len(cronTasks)
          => /\ WarmupRuns(calls', "post") = WarmupRuns(calls, "post") + 1
             /\ WarmupRuns(calls', "mentions") = WarmupRuns(calls, "mentions") + 1
             /\ WarmupRuns(calls', "metrics") = 0
             /\ AllRegistered']_vars
    /\ [][\A c \in BagToSet(calls) :
            (c.origin = "warmup" /\ Settles(c) /\ last'.result = "rejected")
            => /\ last'.handler = "warmupCatch"
               /\ errorLog' # {}
               /\ ~uncaught'
               /\ jobs' = jobs /\ cronTasks' = cronTasks]_vars
    /\ [](WarmupRuns(calls, "metrics") = 0 /\ ~uncaught)

\* both immediate runs have failed and were logged, and the three triggers
\* are still registered and active
C7_Witness ==
    /\ {"Error in initial tweet job", "Error in initial mentions check"} \subseteq errorLog
    /\ last.origin = "warmup" /\ last.result = "rejected"
    /\ AllRegistered
    /\ ~uncaught

\* C8: a postScheduledTweet cycle that ends without publishing ends rejected
\* (the error reaches the caller) and leaves the watchlist as it was; a post
\* is published only by a cycle that is at its publish stage with the context
\* gathered and the content generated.
C8_FailureAbortsCycle ==
    /\ [][\A c \in BagToSet(calls) :
            (c.kind = "post" /\ Settles(c) /\ last'.result = "rejected")
            => /\ recentTweets' = recentTweets
               /\ nextTweetId' = nextTweetId
               /\ last'.pc = c.pc]_vars
    /\ [][\A c \in BagToSet(calls) :
            (c.kind = "post" /\ Settles(c) /\ nextTweetId' = nextTweetId)
            => last'.result = "rejected"]_vars
    /\ [][nextTweetId' # nextTweetId
          => \E c \in BagToSet(calls) :
               /\ c.kind = "post" /\ c.pc = "publish" /\ c.idx = 1 /\ c.val = 1
               /\ Settles(c)]_vars

\* a cycle failed at its publish stage while the watchlist held an entry
C8_Witness ==
    /\ last.kind = "post" /\ last.result = "rejected" /\ last.pc = "publish"
    /\ recentTweets # <<>>

\* C9: a job that fails when run from its periodic trigger is caught and
\* logged by the trigger's callback: nothing is left unhandled, the trigger
\* stays registered and active, and its next tick can run the job again.
C9_TickFailureContained ==
    /\ [][\A c \in BagToSet(calls) :
            (c.origin = "tick" /\ Settles(c) /\ last'.result = "rejected")
            => /\ last'.handler = "tickCatch"
               /\ errorLog' # {}
               /\ ~uncaught'
               /\ jobs' = jobs /\ cronTasks' = cronTasks]_vars
    /\ [](~uncaught)
    /\ [](\A j \in JobTypes : jobs[j] # NoTask => cronTasks[jobs[j]].active)

\* each of the three jobs has failed on a tick and been logged, and the
\* three triggers are still registered and active
C9_Witness ==
    /\ {"Error in scheduled tweet job", "Error in mentions check job",
        "Error in metrics tracking job"} \subseteq errorLog
    /\ last.origin = "tick" /\ last.result = "rejected"
    /\ AllRegistered
    /\ ~uncaught

\* failures of the platform, the generation service or the database
ExternalErrors == {"TransportError", "GenerationError", "StorageError"}

\* C10: a tracking cycle takes up exactly the entries created more than
\* metricsCheckHours before it runs and leaves the others alone, and when it
\* ends without a failure of the platform, the generation service or the
\* database, each entry it took up has had its snapshot taken by this cycle
\* and is absent from the watchlist.
C10_MatureProcessedOnce ==
    /\ [][\A d \in BagToSet(calls') :
            (d.kind = "metrics" /\ d.done = {} /\ d.idx = 1 /\ d.pc \in {"fetch", "insights"}
             /\ CopiesIn(d, calls') > CopiesIn(d, calls))
            => \A i \in 1..Len(recentTweets) :
                 (recentTweets[i].createdAt + metricsCheckHours < now)
                 <=> recentTweets[i] \in {d.list[k] : k \in 1..Len(d.list)}]_vars
    /\ [][\A c \in BagToSet(calls) :
            (c.kind = "metrics" /\ Settles(c) /\ last'.error \notin ExternalErrors)
            => \A i \in 1..Len(c.list) :
                 /\ c.list[i].id \in c.done
                 /\ c.list[i].id \notin Ids(recentTweets')]_vars

\* the watchlist entry with this id leaves the watchlist in this step
Leaves(id) == id \in Ids(recentTweets) /\ id \notin Ids(recentTweets')

SelectsBatch(d) ==
    /\ d.kind = "mentions" /\ d.pc = "replyContext" /\ d.idx = 1 /\ d.done = {}
    /\ CopiesIn(d, calls') > CopiesIn(d, calls)

\* C12: a mention check never takes into the batch it replies to a mention
\* that has already been replied to (whose id is in repliedToMentions).
C12_NoSecondReply ==
    [][\A d \in BagToSet(calls') :
         SelectsBatch(d)
         => \A i \in 1..Len(d.list) : d.list[i].id \notin repliedToMentions]_vars

\* C13: a mention check is handed at most 10 mentions by its request; every
\* mention it takes into the batch it replies to was created less than one
\* hour before the check (one exactly an hour old is left out); and when it
\* returns, the number it returns is the number of replies it published.
C13_FreshBatchAndCount ==
    /\ [](Len(GetMentions(MentionFetchCount)) <= 10)
    /\ [][\A d \in BagToSet(calls') :
            SelectsBatch(d)
            => /\ Len(d.list) <= 10
               /\ \A i \in 1..Len(d.list) :
                    /\ now - d.list[i].created_at < 1
                    /\ d.list[i] \in {inbox[k] : k \in 1..Len(inbox)}]_vars
    /\ [][\A c \in BagToSet(calls) :
            (c.kind = "mentions" /\ Settles(c) /\ last'.result = "resolved")
            => /\ last'.count = Cardinality(c.done)
                                + (IF c.pc = "replyPublish" THEN 1 ELSE 0)
               /\ last'.count = Len(c.list)]_vars

\* the platform holds more mentions than one request returns; a check has
\* returned 1, having replied to one mention and left out a mention that was
\* exactly one hour old
C13_Witness ==
    /\ calls = EmptyBag
    /\ Len(inbox) > MentionFetchCount
    /\ last.kind = "mentions" /\ last.result = "resolved" /\ last.count = 1
    /\ Cardinality(repliedToMentions) = 1
    /\ \E i \in 1..Len(inbox) :
          inbox[i].created_at = now - 1 /\ inbox[i].id \notin repliedToMentions

\* the spellings that name the same symbol as this one, whatever their case
SpellingsOf(key) ==
    IF key \in {"doge", "DOGE"} THEN {"doge", "DOGE"}
    ELSE IF key \in {"pepe", "PEPE"} THEN {"pepe", "PEPE"}
    ELSE {key}

\* C14: the first query for a symbol, in whatever case it is spelled, answers
\* fresh and records the time of the query as first-seen; a later query
\* answers fresh when less than 120 hours have passed since first-seen and
\* stale when 120 hours or more have; no query changes a recorded first-seen.
C14_TokenFreshness ==
    /\ [](returned.op = "isRecentToken"
            => \E key \in DOMAIN recentTokens :
                 /\ returned.arg \in SpellingsOf(key)
                 /\ recentTokens[key] <= returned.at
                 /\ returned.value <=> (returned.at - recentTokens[key] < 120))
    /\ [](\A j, k \in DOMAIN recentTokens :
            (SpellingsOf(j) \cap SpellingsOf(k) # {}) => j = k)
    /\ [][\A key \in DOMAIN recentTokens :
            key \in DOMAIN recentTokens' /\ recentTokens'[key] = recentTokens[key]]_vars
    /\ [][\A key \in DOMAIN recentTokens' \ DOMAIN recentTokens :
            /\ recentTokens'[key] = now
            /\ returned' = TokenAnswer(returned'.arg, now, TRUE)
            /\ returned'.arg \in SpellingsOf(key)]_vars

\* "doge" was first seen at hour 0 and "DOGE", asked for exactly 120 hours
\* later, was answered stale, while "pepe", first seen later, is tracked too
C14_Witness ==
    /\ returned = TokenAnswer("DOGE", 120, FALSE)
    /\ DOMAIN recentTokens = {"DOGE", "PEPE"}
    /\ recentTokens["DOGE"] = 0
    /\ recentTokens["PEPE"] > 0

\* C15: for every snapshot of the store that carries likes, retweets and
\* replies, calculateEngagementScore, the average-engagement formula of
\* getPerformanceInsights and the ranking expression of
\* getTopPerformingTweets give the same score.
C15_OneWeighting ==
    \A j \in 1..Len(metrics) :
        Null \notin {metrics[j].likes, metrics[j].retweets, metrics[j].replies}
        => /\ calculateEngagementScore(metrics[j].likes, metrics[j].retweets,
                                       metrics[j].replies)
                = InsightsEngagement(metrics[j])
           /\ InsightsEngagement(metrics[j]) = SqlScore(metrics[j])

\* the posts of the tweets table that a result does not hold
LeftOut(rows) ==
    {i \in 1..Len(tweets) : \A a \in 1..Len(rows) : rows[a].id # tweets[i].id}

\* C16: what getTopPerformingTweets returned holds only posts that have a
\* snapshot; what getRecentTweetsWithMetrics returned holds min(limit, number
\* of posts) different posts, none older than a post it leaves out, whether or
\* not they have a snapshot, with null likes, retweets and replies for those
\* that have none.
C16_TopNeedsSnapshotRecentDoesNot ==
    /\ returned.op = "getTopPerformingTweets"
       => \A a \in 1..Len(returned.rows) :
            /\ HasMetrics(metrics, returned.rows[a].id)
            /\ returned.rows[a].id \in Ids(tweets)
    /\ returned.op = "getRecentTweetsWithMetrics"
       => /\ Len(returned.rows) = (IF returned.limit < Len(tweets)
                                   THEN returned.limit ELSE Len(tweets))
          /\ \A a, b \in 1..Len(returned.rows) :
                returned.rows[a].id = returned.rows[b].id => a = b
          /\ \A a \in 1..Len(returned.rows) :
                /\ \E i \in 1..Len(tweets) :
                      /\ tweets[i].id = returned.rows[a].id
                      /\ tweets[i].created_at = returned.rows[a].created_at
                /\ \A i \in LeftOut(returned.rows) :
                      tweets[i].created_at <= returned.rows[a].created_at
                /\ ~HasMetrics(metrics, returned.rows[a].id)
                   => /\ returned.rows[a].likes = Null
                      /\ returned.rows[a].retweets = Null
                      /\ returned.rows[a].replies = Null

\* getRecentTweetsWithMetrics has returned two posts, one that has a snapshot
\* with counts and one that has none
C16_Witness ==
    /\ returned.op = "getRecentTweetsWithMetrics"
    /\ Len(returned.rows) = 2
    /\ \E a, b \in 1..Len(returned.rows) :
          /\ ~HasMetrics(metrics, returned.rows[a].id)
          /\ returned.rows[a].likes = Null
          /\ HasMetrics(metrics, returned.rows[b].id)
          /\ returned.rows[b].likes # Null

\* C17: what getTopPerformingTweets returned holds each post at most once,
\* and the score of a post's row is computed from a snapshot of the post
\* that no other snapshot of it is later than.
C17_JoinsLatestSnapshotOnly ==
    returned.op = "getTopPerformingTweets"
    => /\ \A a, b \in 1..Len(returned.rows) :
             returned.rows[a].id = returned.rows[b].id => a = b
       /\ \A a \in 1..Len(returned.rows) :
             \E j \in 1..Len(metrics) :
                /\ metrics[j].tweet_id = returned.rows[a].id
                /\ \A k \in 1..Len(metrics) :
                      metrics[k].tweet_id = returned.rows[a].id
                      => metrics[k].timestamp <= metrics[j].timestamp
                /\ returned.rows[a].engagement_score
                      = metrics[j].likes + metrics[j].retweets * 2 + metrics[j].replies * 3

\* C18: the snapshot a tracking cycle saves for an entry carries the counts
\* of the response it fetched for it: likes, retweets and replies equal the
\* platform's like, retweet and reply counts.
C18_SnapshotCarriesFetchedCounts ==
    [][\A c \in BagToSet(calls) :
         (/\ c.kind = "metrics" /\ c.pc = "save"
          /\ CopiesIn(c, calls') < CopiesIn(c, calls)
          /\ Len(metrics') = Len(metrics) + 1)
         => /\ metrics'[Len(metrics')].tweet_id = Current(c).id
            /\ metrics'[Len(metrics')].likes = PublicMetrics[c.val].like_count
            /\ metrics'[Len(metrics')].retweets = PublicMetrics[c.val].retweet_count
            /\ metrics'[Len(metrics')].replies = PublicMetrics[c.val].reply_count]_vars

\* C19: every entry of the watchlist refers to a post that is a row of the
\* store's tweets table.
C19_PublishedPostsAreRecorded ==
    \A i \in 1..Len(recentTweets) : recentTweets[i].id \in Ids(tweets)

\* C20: when a post forced through the control API has completed
\* successfully, the post is on the watchlist, as after a scheduled post.
C20_ForcedPostIsWatched ==
    [][\A c \in BagToSet(calls) :
         (/\ c.kind = "force" /\ c.pc = "saveTweet"
          /\ CopiesIn(c, calls') < CopiesIn(c, calls)
          /\ last'.kind = "force" /\ last'.result = "resolved")
         => c.val \in Ids(recentTweets')]_vars

\* C21: a posting cycle whose generated text is longer than the platform's
\* limit never reaches the publish stage.
C21_OverlongTextNotPublished ==
    \A c \in BagToSet(calls) :
        (c.kind = "post" /\ c.pc = "publish") => c.val <= TweetMaxLength

\* C22: stopAllJobs leaves the invocations in flight as they are; one that
\* ends rejected afterwards ends with a failure of its own stage, and a post
\* that a cycle publishes, also after the stop, is appended to the watchlist.
C22_StopLeavesActionsRunning ==
    /\ [][(~NoneRegistered /\ NoneRegistered')
          => calls' = calls /\ recentTweets' = recentTweets]_vars
    /\ [][\A c \in BagToSet(calls) :
            (NoneRegistered /\ Settles(c))
            => /\ last'.result = "rejected"
                    => last'.error \in ExternalErrors
               /\ (c.kind = "post" /\ last'.result = "resolved")
                    => /\ c.pc = "publish"
                       /\ nextTweetId \in Ids(recentTweets')]_vars

\* the jobs are stopped and a posting cycle is still in flight, suspended
\* with its content generated and the post not yet published
C22_Witness ==
    /\ NoneRegistered /\ cronTasks # <<>>
    /\ \E c \in BagToSet(calls) : c.kind = "post" /\ c.pc = "publish" /\ c.val = 1

\* C23: gatherTweetContext resolves with a bundle whatever the trending
\* search and the platform answer; a failed sub-fetch contributes an empty
\* list, and the lists of the other sub-fetches are what they are without
\* the failure: the five events, the memecoin-like coins the search listed
\* in its order, and at most three of the tweets the platform gave.
C23_ContextNeverRaises ==
    returned.op = "gatherTweetContext"
    => /\ returned.result = "resolved"
       /\ Len(returned.context.recentEvents) = 5
       /\ ~returned.coins.ok
            => returned.context.topCoins = <<>> /\ returned.context.recentTokens = <<>>
       /\ ~returned.tweets.ok => returned.context.trendingTweets = <<>>
       /\ returned.coins.ok
            => LET kept == SelectSeq(returned.coins.coins, LAMBDA s : s # "wbtc")
               IN  /\ Len(returned.context.topCoins) = Len(kept)
                   /\ \A i \in 1..Len(kept) : returned.context.topCoins[i][1] = kept[i]
       /\ returned.tweets.ok
            => /\ Len(returned.context.trendingTweets) = AtMost(Len(returned.tweets.tweets), 3)
               /\ \A i \in 1..Len(returned.context.trendingTweets) :
                     returned.context.trendingTweets[i].engagement
                        = returned.tweets.tweets[i].engagement_score

\* the trending search failed and the platform answered: the bundle has no
\* coins and has the platform's tweet
C23_Witness ==
    /\ returned.op = "gatherTweetContext"
    /\ ~returned.coins.ok /\ returned.tweets.ok
    /\ returned.result = "resolved"
    /\ returned.context.topCoins = <<>>
    /\ returned.context.trendingTweets # <<>>

\* C24: two consecutive firings of the trigger configured with an interval
\* of N hours are exactly N hours apart.
C24_FiringsNHoursApart ==
    (returned.op = "cronFire" /\ returned.before # Null)
    => returned.at - returned.before = metricsCheckHours

C26_AnalysisForAnyStoredPost ==
    (/\ returned.op = "analyzeTweetPerformance"
     /\ returned.llmOk
     /\ returned.id \in Ids(tweets)
     /\ HasMetrics(metrics, returned.id))
    => /\ returned.error = "none"
       /\ returned.saved = 1
       /\ analyses # <<>> /\ analyses[Len(analyses)].tweet_id = returned.id

\* the invocation has fetched the metrics of its current entry and is
\* suspended before that entry is done with
HasFetched(c) == c.kind = "metrics" /\ c.pc \in {"save", "analyze"}

\* C27: no two tracking cycles in flight have fetched the metrics of the same
\* watchlist entry, and no entry has more than one snapshot.
C27_OverlapFetchesOnce ==
    /\ \A c, d \in BagToSet(calls) :
          (HasFetched(c) /\ HasFetched(d) /\ Current(c).id = Current(d).id)
          => c = d /\ CopiesIn(c, calls) = 1
    /\ \A i, j \in 1..Len(metrics) : metrics[i].tweet_id = metrics[j].tweet_id => i = j

C30_StoreUsableWhileRunning == AllRegistered => dbOpen

====
